---- MODULE Spec2Model ----
(***************************************************************************)
(* State-machine model of the monitoring pipeline of src/main.py:          *)
(* main() constructs a BaeminMonitor, BaeminMonitor.run() drives            *)
(* start -> login_with_cookies -> load_page -> get_page_info ->             *)
(* extract_slots -> check_links -> take_screenshot -> stop, and main()      *)
(* then calls save_to_sheets, writes the JSON artifact and returns the     *)
(* exit code.                                                               *)
(*                                                                         *)
(* Every driver / network / sink call that can raise is a nondeterministic *)
(* choice of its outcome.  The local filesystem (mkdir, open, json.dump)   *)
(* and the logger are taken to be reliable.                                *)
(*                                                                         *)
(* Spec is the whole of main() on documents of up to MaxRunDom elements;   *)
(* ExtractSpec and LinkSpec run extract_slots and check_links alone on     *)
(* every loaded document of up to MaxDom elements.                         *)
(***************************************************************************)
EXTENDS Integers, Sequences, FiniteSets, TLC

\* ------------------------------------------------------------------ bounds
\* Longest document (number of elements) a navigation may load.
MaxDom == 3
\* Longest document the full pipeline (Spec) loads.
MaxRunDom == 1
\* Longest cookie list in BAEMIN_COOKIES.
MaxCookies == 2
\* Most element-level / selector-level faults injected into one stage.
MaxFaults == 1
\* elements[:20] of extract_slots (src/main.py:311), scaled down so that a
\* bounded document exceeds it.
SlotCap == 2
\* links[:50] of check_links (src/main.py:350), scaled down likewise.
LinkCap == 2

\* ------------------------------------------------------------ page content
\* An href as the code inspects it: the prefix that startswith() tests and
\* the remainder.  The empty href has both parts empty.
Href(scheme, rest) == [scheme |-> scheme, rest |-> rest]

EmptyHref == Href("", "")

\* The element has no href attribute (a[href] does not match it).
NoHref == Href("-", "-")

\* url.startswith(prefix)
StartsWith(url, prefix) == url.scheme = prefix

\* The kinds of element a document is built from.  cls is the class token
\* the attribute selectors of Config.SLOT_SELECTORS look at.
Elem(tag, cls, href) == [tag |-> tag, cls |-> cls, href |-> href]

ElemKinds ==
    { Elem("a", "banner", Href("https:", "u1")),
      Elem("a", "", Href("https:", "u2")),
      Elem("a", "", Href("javascript:", "void")),
      Elem("a", "", Href("#", "top")),
      Elem("a", "", Href("mailto:", "m")),
      Elem("a", "", EmptyHref),
      Elem("img", "card", NoHref) }

SeqsUpTo(S, n) == UNION { [1..k -> S] : k \in 0..n }

Doms == SeqsUpTo(ElemKinds, MaxDom)

RunDoms == SeqsUpTo(ElemKinds, MaxRunDom)

\* Marker strings a page's text may contain.
PageTexts == { {"in_domain_marker"}, {"block_keyword"},
               {"block_keyword", "in_domain_marker"}, {"login", "security"} }

\* Config.SLOT_SELECTORS, in declaration order.
SlotTypes ==
    << "main_banner", "content_cards", "menu_items", "links", "images", "sections" >>

\* Does element e match the CSS selector of slot type t?
Matches(t, e) ==
    CASE t = "main_banner"   -> e.cls \in {"banner", "slide"}
      [] t = "content_cards" -> e.cls \in {"card", "article"}
      [] t = "menu_items"    -> e.cls \in {"menu", "nav"}
      [] t = "links"         -> e.tag = "a" /\ e.href # NoHref
      [] t = "images"        -> e.tag = "img"
      [] t = "sections"      -> e.tag = "section" \/ e.cls = "section"

\* driver.find_elements(By.CSS_SELECTOR, selector): the positions of the
\* matching elements, in document order.
RECURSIVE FindFrom(_, _, _)
FindFrom(d, t, p) ==
    IF p > Len(d) THEN << >>
    ELSE (IF Matches(t, d[p]) THEN << p >> ELSE << >>) \o FindFrom(d, t, p + 1)

FindElements(d, t) == FindFrom(d, t, 1)

\* s[:n]
Take(s, n) == SubSeq(s, 1, IF Len(s) < n THEN Len(s) ELSE n)

\* ---------------------------------------------------------------- variables
VARIABLES
    pc,            \* position in main() / BaeminMonitor.run()
    results,       \* BaeminMonitor.results
    driver,        \* self.driver is set
    sessions,      \* browser sessions created by webdriver.Chrome()
    quitCalls,     \* driver.quit() invocations
    dom,           \* the document the browser currently shows
    pageText,      \* marker strings of that document's text
    calls,         \* history: the stages invoked so far, in order
    loadOutcome,   \* history: how load_page's navigation ended
    cookieCount,   \* history: the length of the cookie list parsed
    attempted,     \* history: cookies whose loop body was entered
    loginFault,    \* history: the fault raised inside login_with_cookies
    hrefsRead,     \* history: the hrefs check_links read from its anchors
    requested,     \* history: URLs given to requests.head, in order
    quitRaised,    \* history: driver.quit() raised
    runReturned,   \* run() returned its results to main()
    sheetsSaved,   \* save_to_sheets' return value
    spreadsheet,   \* the spreadsheet a GoogleSheetsManager works on
    jsonWritten,   \* the results_*.json artifact was written
    exit_code      \* << >> while running, << code >> once the process ended

vars == << pc, results, driver, sessions, quitCalls, dom, pageText, calls,
           loadOutcome, cookieCount, attempted, loginFault, hrefsRead, requested,
           quitRaised, runReturned, sheetsSaved, spreadsheet, jsonWritten,
           exit_code >>

\* The spreadsheet before any GoogleSheetsManager touched it: the sheet named
\* sheet_name is absent.  rows are the sheet's rows from row 1 on;
\* headerWrites counts the header rows written, appends the append_row calls
\* made, returned is what the last append_row call did.
NoSheet ==
    [ exists |-> FALSE, rows |-> << >>, headerWrites |-> 0, appends |-> 0,
      returned |-> "none" ]

\* BaeminMonitor.__init__: the initial results.
InitResults ==
    [ status            |-> "pending",
      login_status      |-> "unknown",
      slots             |-> << >>,
      broken_links      |-> << >>,
      total_slots       |-> 0,
      total_links       |-> 0,
      broken_link_count |-> 0,
      errors            |-> << >>,
      screenshot        |-> FALSE,
      page_title        |-> FALSE,
      current_url       |-> FALSE ]

Init ==
    /\ pc = "run"
    /\ results = InitResults
    /\ driver = FALSE
    /\ sessions = 0
    /\ quitCalls = 0
    /\ dom = << >>
    /\ pageText = {}
    /\ calls = << >>
    /\ loadOutcome = "none"
    /\ cookieCount = 0
    /\ attempted = 0
    /\ loginFault = "none"
    /\ hrefsRead = << >>
    /\ requested = << >>
    /\ quitRaised = FALSE
    /\ runReturned = FALSE
    /\ sheetsSaved = FALSE
    /\ spreadsheet = NoSheet
    /\ jsonWritten = FALSE
    /\ exit_code = << >>

\* The except clause of run(): status = 'error', the message appended.
RunExcept(r, msg) ==
    [r EXCEPT !.status = "error", !.errors = Append(@, msg)]

\* --------------------------------------------------------------- start()
\* create_browser: ChromeDriverManager().install(), webdriver.Chrome(),
\* execute_cdp_cmd, set_page_load_timeout; any of them may raise.
StartOutcomes == {"ok", "install_fault", "chrome_fault", "cdp_fault", "timeout_fault"}

\* webdriver.Chrome() returned: a browser session exists.
SessionCreatedBy(o) == o \in {"ok", "cdp_fault", "timeout_fault"}

Start ==
    /\ pc = "run"
    /\ \E o \in StartOutcomes :
        /\ sessions' = sessions + (IF SessionCreatedBy(o) THEN 1 ELSE 0)
        /\ driver' = (o = "ok")
        /\ IF o = "ok"
           THEN /\ pc' = "login"
                /\ results' = results
           ELSE /\ pc' = "stop"
                /\ results' = RunExcept(results, o)
    /\ calls' = Append(calls, "start")
    /\ UNCHANGED << quitCalls, dom, pageText, loadOutcome, cookieCount, attempted,
                    loginFault, hrefsRead, requested, quitRaised, runReturned, sheetsSaved, spreadsheet,
                    jsonWritten, exit_code >>

\* ------------------------------------------------------ login_with_cookies()
\* What Config.COOKIES_JSON holds: nothing, text json.loads rejects, a JSON
\* value that is no list, or a list of cookie objects.  A cookie is "good"
\* (add_cookie accepts it) or "rejected" (building cookie_dict or add_cookie
\* raises; the loop's handler logs it).
CookieKinds == {"good", "rejected"}

CookieLists == SeqsUpTo(CookieKinds, MaxCookies)

\* The number of cookies whose loop body is entered: a rejected cookie is
\* logged and the loop goes on.
RECURSIVE LoopEntered(_, _)
LoopEntered(cs, k) ==
    IF k > Len(cs) THEN Len(cs)
    ELSE IF cs[k] \in {"good", "rejected"} THEN LoopEntered(cs, k + 1)
    ELSE k

\* The for loop of load_cookies ran over every cookie.
LoopCompleted(cs) == LoopEntered(cs, 1) = Len(cs)

\* load_cookies' return value; nav is the outcome of driver.get(domain root).
LoadCookiesReturns(cfg, cs, nav) ==
    /\ cfg = "list"
    /\ nav = "ok"
    /\ LoopCompleted(cs)

\* The login classification from the page source after the refresh.
LoginStatusOf(text) ==
    IF "login" \in text /\ "security" \in text THEN "failed" ELSE "success"

LoginWithCookies ==
    /\ pc = "login"
    /\ calls' = Append(calls, "login_with_cookies")
    /\ \E cfg \in {"unset", "malformed", "scalar", "list"}, cs \in CookieLists,
          nav \in {"ok", "fault"}, refresh \in {"ok", "refresh_fault", "source_fault"},
          d \in RunDoms, t \in PageTexts :
        /\ cfg # "list" => (cs = << >> /\ nav = "ok" /\ d = dom /\ t = pageText)
        /\ (cfg = "list" /\ nav = "fault") => (d = dom /\ t = pageText)
        /\ ~LoadCookiesReturns(cfg, cs, nav) => refresh = "ok"
        /\ cookieCount' = Len(cs)
        /\ attempted' = (IF cfg = "list" /\ nav = "ok" THEN LoopEntered(cs, 1) ELSE 0)
        /\ dom' = d
        /\ pageText' = t
        /\ IF LoadCookiesReturns(cfg, cs, nav)
           THEN IF refresh = "ok"
                THEN /\ results' = [results EXCEPT !.login_status = LoginStatusOf(t)]
                     /\ loginFault' = "none"
                     /\ pc' = "load"
                ELSE /\ results' = RunExcept(results, refresh)
                     /\ loginFault' = refresh
                     /\ pc' = "stop"
           ELSE /\ results' = [results EXCEPT !.login_status = "no_cookies"]
                /\ loginFault' = "none"
                /\ pc' = "load"
    /\ UNCHANGED << driver, sessions, quitCalls, loadOutcome, hrefsRead, requested, quitRaised,
                    runReturned, sheetsSaved, spreadsheet, jsonWritten, exit_code >>

\* ------------------------------------------------------------- load_page()
\* driver.get, then the wait for the body element; each may time out or
\* raise another fault.  A fault of _scroll_page is caught inside it.
LoadOutcomes == {"ok", "get_timeout", "get_fault", "wait_timeout", "wait_fault"}

\* driver.get returned: the browser shows the target document.
Navigated(o) == o \in {"ok", "wait_timeout", "wait_fault"}

\* A load_page that reports success whatever the navigation did.
LoadPageAlwaysTrue(o) == TRUE

\* load_page's return value.
LoadPageReturns(o) == o = "ok"

\* The except clauses of load_page: the message appended to errors.
LoadPageErrors(r, o) ==
    CASE o = "ok" -> r
      [] o \in {"get_timeout", "wait_timeout"} ->
            [r EXCEPT !.errors = Append(@, "Page load timeout")]
      [] OTHER -> [r EXCEPT !.errors = Append(@, "Page load error")]

\* A run that navigates again after load_page reported a failure.
AfterLoadPageRetry(ok) == IF ok THEN "info" ELSE "load"

\* The branch of run() on load_page's return value: on to get_page_info, or
\* to the else branch (status = 'failed', then take_screenshot).
AfterLoadPage(ok) == IF ok THEN "info" ELSE "shot_failed"

LoadPage ==
    /\ pc = "load"
    /\ calls' = Append(calls, "load_page")
    /\ \E o \in LoadOutcomes, d \in RunDoms, t \in PageTexts :
        /\ ~Navigated(o) => (d = dom /\ t = pageText)
        /\ loadOutcome' = o
        /\ dom' = d
        /\ pageText' = t
        /\ results' = (IF LoadPageReturns(o)
                       THEN LoadPageErrors(results, o)
                       ELSE [LoadPageErrors(results, o) EXCEPT !.status = "failed"])
        /\ pc' = AfterLoadPage(LoadPageReturns(o))
    /\ UNCHANGED << driver, sessions, quitCalls, cookieCount, attempted, loginFault,
                    hrefsRead, requested, quitRaised, runReturned, sheetsSaved, spreadsheet, jsonWritten,
                    exit_code >>

\* --------------------------------------------------------- get_page_info()
GetPageInfo ==
    /\ pc = "info"
    /\ calls' = Append(calls, "get_page_info")
    /\ \E o \in {"ok", "title_fault", "url_fault"} :
        results' = [results EXCEPT !.page_title = (o # "title_fault"),
                                   !.current_url = (o = "ok")]
    /\ pc' = "extract"
    /\ UNCHANGED << driver, sessions, quitCalls, dom, pageText, loadOutcome, cookieCount,
                    attempted, loginFault, hrefsRead, requested, quitRaised, runReturned,
                    sheetsSaved, spreadsheet, jsonWritten, exit_code >>

\* --------------------------------------------------------- extract_slots()
\* f'S{slot_index:02d}': the letter S, then the decimal digits of n, padded
\* with zeros to at least two.
RECURSIVE Digits(_)
Digits(n) == IF n < 10 THEN << n >> ELSE Digits(n \div 10) \o << n % 10 >>

FormatIndex(n) ==
    << "S" >> \o (IF Len(Digits(n)) < 2 THEN << 0 >> ELSE << >>) \o Digits(n)

\* The faults one run of extract_slots may meet: << g, 0 >> is find_elements
\* raising for the g-th selector, << g, p >> is the processing of the element
\* at document position p raising while the g-th selector's matches are read.
ExtractFaultPoints(d) ==
    { << g, 0 >> : g \in 1..Len(SlotTypes) }
      \cup { gp \in (1..Len(SlotTypes)) \X (1..Len(d)) : Matches(SlotTypes[gp[1]], d[gp[2]]) }

\* The subsets of S of at most k elements.
RECURSIVE SubsetsUpTo(_, _)
SubsetsUpTo(S, k) ==
    IF k = 0 THEN { {} }
    ELSE LET smaller == SubsetsUpTo(S, k - 1)
         IN  smaller \cup { F \cup {x} : F \in smaller, x \in S }

FaultSets(S) == SubsetsUpTo(S, MaxFaults)

\* The slot record of the element at position p (text, visible and the
\* tag-conditional href / src / alt are not read by anything modelled here;
\* node is the element's identity, its document position).
SlotInfo(idx, t, d, p) ==
    [index |-> FormatIndex(idx), type |-> t, tag |-> d[p].tag, node |-> p]

\* slot_index after an element was appended.
NextSlotIndex(idx) == idx + 1

\* A slot_index initialised inside the loop over the selector groups.
GroupStartIndexReset(idx, g) == 1

\* slot_index at the start of the g-th selector group: carried over.
GroupStartIndex(idx, g) == idx

\* The inner loop over elements[:20]; acc is [slots, idx].
RECURSIVE ExtractElems(_, _, _, _, _, _)
ExtractElems(d, g, elems, k, acc, faults) ==
    IF k > Len(elems) THEN acc
    ELSE IF << g, elems[k] >> \in faults
         THEN ExtractElems(d, g, elems, k + 1, acc, faults)
         ELSE ExtractElems(d, g, elems, k + 1,
                  [slots |-> Append(acc.slots,
                                    SlotInfo(acc.idx, SlotTypes[g], d, elems[k])),
                   idx   |-> NextSlotIndex(acc.idx)],
                  faults)

\* The outer loop over Config.SLOT_SELECTORS.
RECURSIVE ExtractGroups(_, _, _, _)
ExtractGroups(d, g, acc, faults) ==
    IF g > Len(SlotTypes) THEN acc
    ELSE IF << g, 0 >> \in faults
         THEN ExtractGroups(d, g + 1, acc, faults)
         ELSE ExtractGroups(d, g + 1,
                  ExtractElems(d, g, Take(FindElements(d, SlotTypes[g]), SlotCap), 1,
                               [slots |-> acc.slots, idx |-> GroupStartIndex(acc.idx, g)],
                               faults),
                  faults)

\* The slots list extract_slots builds (slots = [], slot_index = 1).
ExtractedSlots(d, faults) ==
    ExtractGroups(d, 1, [slots |-> << >>, idx |-> 1], faults).slots

ExtractSlots ==
    /\ pc = "extract"
    /\ calls' = Append(calls, "extract_slots")
    /\ \E faults \in FaultSets(ExtractFaultPoints(dom)) :
        LET slots == ExtractedSlots(dom, faults) IN
        results' = [results EXCEPT !.slots = slots, !.total_slots = Len(slots)]
    /\ pc' = "links"
    /\ UNCHANGED << driver, sessions, quitCalls, dom, pageText, loadOutcome, cookieCount,
                    attempted, loginFault, hrefsRead, requested, quitRaised, runReturned,
                    sheetsSaved, spreadsheet, jsonWritten, exit_code >>

\* ----------------------------------------------------------- check_links()
\* What requests.head does for an http(s) URL: a response with a status
\* code, or a requests.RequestException.
Response(code) == [raised |-> FALSE, code |-> code]

RequestException == [raised |-> TRUE, code |-> 0]

HttpOutcomes == { Response(200), Response(404), RequestException }

HttpUrls(d) == { d[p].href : p \in { q \in 1..Len(d) : d[q].href.scheme = "https:" } }

\* requests.head(url): no connection adapter exists for a scheme other than
\* http(s), and requests raises InvalidSchema, a RequestException.
RequestsHead(health, url) == IF url \in DOMAIN health THEN health[url] ELSE RequestException

\* The faults one run of check_links may meet inside its per-link try:
\* << p, "href" >> is link.get_attribute('href') raising for the anchor at
\* position p, << p, "text" >> is link.text raising while its BrokenLink is
\* built.
LinkFaultPoints(d) ==
    { pw \in (1..Len(d)) \X {"href", "text"} : Matches("links", d[pw[1]]) }

\* A check that forgets the checked_urls test.
SkipSeenNoDedup(url, checked) == url = EmptyHref

\* not url or url in checked_urls
SkipSeen(url, checked) == url = EmptyHref \/ url \in checked

\* url.startswith('javascript:') or url.startswith('#')
SkipScheme(url) == StartsWith(url, "javascript:") \/ StartsWith(url, "#")

\* response.status_code >= 400, or the request raised
IsBroken(o) == o.raised \/ o.code >= 400

BrokenLink(url, o) ==
    [url |-> url, status_code |-> IF o.raised THEN "ERROR" ELSE ToString(o.code)]

\* The loop over links[:50]; acc is [checked, broken, read, requested].
RECURSIVE CheckLoop(_, _, _, _, _, _)
CheckLoop(d, links, k, acc, health, faults) ==
    IF k > Len(links) THEN acc
    ELSE LET p    == links[k]
             url  == d[p].href
             o    == RequestsHead(health, url)
             got  == [acc EXCEPT !.read = Append(@, url)]
             seen == [got EXCEPT !.checked = @ \cup {url},
                                 !.requested = Append(@, url)]
         IN  IF << p, "href" >> \in faults
             THEN CheckLoop(d, links, k + 1, acc, health, faults)
             ELSE IF SkipSeen(url, acc.checked) \/ SkipScheme(url)
             THEN CheckLoop(d, links, k + 1, got, health, faults)
             ELSE IF IsBroken(o) /\ << p, "text" >> \notin faults
                  THEN CheckLoop(d, links, k + 1,
                           [seen EXCEPT !.broken = Append(@, BrokenLink(url, o))],
                           health, faults)
                  ELSE CheckLoop(d, links, k + 1, seen, health, faults)

\* check_links' pass over the document.
CheckedLinks(d, health, faults) ==
    CheckLoop(d, Take(FindElements(d, "links"), LinkCap), 1,
              [checked |-> {}, broken |-> << >>, read |-> << >>, requested |-> << >>], health, faults)

\* A broken_link_count taken from the checked URLs instead.
BrokenLinkCountOfChecked(c) == Cardinality(c.checked)

\* results['broken_link_count']
BrokenLinkCount(c) == Len(c.broken)

CheckLinks ==
    /\ pc = "links"
    /\ calls' = Append(calls, "check_links")
    /\ \/ \E health \in [HttpUrls(dom) -> HttpOutcomes],
             faults \in FaultSets(LinkFaultPoints(dom)) :
            LET c == CheckedLinks(dom, health, faults) IN
            /\ results' = [results EXCEPT !.total_links = Cardinality(c.checked),
                                          !.broken_links = c.broken,
                                          !.broken_link_count = BrokenLinkCount(c)]
            /\ hrefsRead' = c.read
            /\ requested' = c.requested
       \/ \* find_elements raises: the stage-level handler records the error
          /\ results' = [results EXCEPT !.errors = Append(@, "Link check error")]
          /\ UNCHANGED << hrefsRead, requested >>
    /\ pc' = "shot_success"
    /\ UNCHANGED << driver, sessions, quitCalls, dom, pageText, loadOutcome, cookieCount,
                    attempted, loginFault, quitRaised, runReturned, sheetsSaved, spreadsheet,
                    jsonWritten, exit_code >>

\* ------------------------------------------- the stages on a loaded page
\* The state of a run whose target page has just loaded (no cookies were
\* configured, get_page_info succeeded), for every document of up to MaxDom
\* elements, with extract_slots about to run.
ExtractInit ==
    /\ pc = "extract"
    /\ results = [InitResults EXCEPT !.login_status = "no_cookies",
                                     !.page_title = TRUE, !.current_url = TRUE]
    /\ driver = TRUE
    /\ sessions = 1
    /\ quitCalls = 0
    /\ dom \in Doms
    /\ pageText = {"in_domain_marker"}
    /\ calls = << "start", "login_with_cookies", "load_page", "get_page_info" >>
    /\ loadOutcome = "ok"
    /\ cookieCount = 0
    /\ attempted = 0
    /\ loginFault = "none"
    /\ hrefsRead = << >>
    /\ requested = << >>
    /\ quitRaised = FALSE
    /\ runReturned = FALSE
    /\ sheetsSaved = FALSE
    /\ spreadsheet = NoSheet
    /\ jsonWritten = FALSE
    /\ exit_code = << >>

ExtractNext ==
    \/ ExtractSlots

ExtractSpec == ExtractInit /\ [][ExtractNext]_vars

\* The same run once extract_slots has returned (no element of the page
\* faulted), with check_links about to run.
LinkInit ==
    /\ pc = "links"
    /\ dom \in Doms
    /\ results = [InitResults EXCEPT !.login_status = "no_cookies",
                                     !.page_title = TRUE, !.current_url = TRUE,
                                     !.slots = ExtractedSlots(dom, {}),
                                     !.total_slots = Len(ExtractedSlots(dom, {}))]
    /\ driver = TRUE
    /\ sessions = 1
    /\ quitCalls = 0
    /\ pageText = {"in_domain_marker"}
    /\ calls = << "start", "login_with_cookies", "load_page", "get_page_info",
                  "extract_slots" >>
    /\ loadOutcome = "ok"
    /\ cookieCount = 0
    /\ attempted = 0
    /\ loginFault = "none"
    /\ hrefsRead = << >>
    /\ requested = << >>
    /\ quitRaised = FALSE
    /\ runReturned = FALSE
    /\ sheetsSaved = FALSE
    /\ spreadsheet = NoSheet
    /\ jsonWritten = FALSE
    /\ exit_code = << >>

LinkNext ==
    \/ CheckLinks

LinkSpec == LinkInit /\ [][LinkNext]_vars

\* ------------------------------------------------------- take_screenshot()
\* driver.save_screenshot may raise; the fault is caught and logged.  (The
\* mkdir before the try is a local filesystem call and does not fail here.)
\* On the success path run sets status = 'success' after the call; on the
\* failed path status was set before it.
TakeScreenshot ==
    /\ pc \in {"shot_success", "shot_failed"}
    /\ calls' = Append(calls, "take_screenshot")
    /\ \E o \in {"saved", "fault"} :
        results' = [results EXCEPT
                      !.screenshot = (o = "saved"),
                      !.status = IF pc = "shot_success" THEN "success" ELSE @]
    /\ pc' = "stop"
    /\ UNCHANGED << driver, sessions, quitCalls, dom, pageText, loadOutcome, cookieCount,
                    attempted, loginFault, hrefsRead, requested, quitRaised, runReturned,
                    sheetsSaved, spreadsheet, jsonWritten, exit_code >>

\* ------------------------------------------------------------------ stop()
\* The finally clause of run(): stop() calls driver.quit() when self.driver
\* is set.  quit() may raise; nothing catches it, neither stop() nor run()
\* nor main(), so the interpreter ends with an uncaught exception (exit
\* status 1).
QuitOutcomes == {"ok", "fault"}

\* Does a fault of driver.quit() leave stop()?
StopRaises(o) == o = "fault"

Stop ==
    /\ pc = "stop"
    /\ calls' = Append(calls, "stop")
    /\ \E o \in QuitOutcomes :
        /\ ~driver => o = "ok"
        /\ quitCalls' = quitCalls + (IF driver THEN 1 ELSE 0)
        /\ quitRaised' = (o = "fault")
        /\ IF StopRaises(o)
           THEN /\ pc' = "crashed"
                /\ runReturned' = FALSE
                /\ exit_code' = << 1 >>
           ELSE /\ pc' = "sheets"
                /\ runReturned' = TRUE
                /\ exit_code' = exit_code
    /\ UNCHANGED << results, driver, sessions, dom, pageText, loadOutcome, cookieCount,
                    attempted, loginFault, hrefsRead, requested, sheetsSaved, spreadsheet, jsonWritten >>

\* --------------------------------------------------------- save_to_sheets()
\* How the sink ends: Config.SPREADSHEET_ID is empty; credentials.json is
\* missing (FileNotFoundError) or rejected (RuntimeError) in the
\* GoogleSheetsManager constructor; the append request fails with an
\* HttpError (append_row returns False) or with another exception; or the
\* row is appended.
SinkOutcomes ==
    {"no_spreadsheet_id", "no_credentials", "auth_fault", "http_error",
     "append_fault", "appended"}

\* save_to_sheets' return value: True once append_row returned, whatever
\* append_row returned (it returns False after an HttpError).
SaveToSheetsReturns(o) == o \in {"http_error", "appended"}

\* A save_to_sheets that constructs GoogleSheetsManager outside its try.
SaveToSheetsRaisesOnAuth(o) == o \in {"no_credentials", "auth_fault"}

\* Does the outcome leave save_to_sheets as an exception?  Its try block
\* covers the constructor and append_row, and catches Exception.
SaveToSheetsRaises(o) == FALSE

SaveToSheets ==
    /\ pc = "sheets"
    /\ \E o \in SinkOutcomes :
        /\ sheetsSaved' = SaveToSheetsReturns(o)
        /\ IF SaveToSheetsRaises(o)
           THEN /\ pc' = "crashed"
                /\ exit_code' = << 1 >>
           ELSE /\ pc' = "json"
                /\ exit_code' = exit_code
    /\ UNCHANGED << results, driver, sessions, quitCalls, dom, pageText, calls,
                    loadOutcome, cookieCount, attempted, loginFault, hrefsRead, requested,
                    quitRaised, runReturned, spreadsheet, jsonWritten >>

\* ------------------------------------------------------------ main(), end
\* return 0 if results['status'] == 'success' else 1
ExitCodeFor(status) == IF status = "success" THEN 0 ELSE 1

\* json.dump of the results to logs/results_*.json, then the return.
WriteResults ==
    /\ pc = "json"
    /\ jsonWritten' = TRUE
    /\ exit_code' = << ExitCodeFor(results.status) >>
    /\ pc' = "exit"
    /\ UNCHANGED << results, driver, sessions, quitCalls, dom, pageText, calls,
                    loadOutcome, cookieCount, attempted, loginFault, hrefsRead, requested,
                    quitRaised, runReturned, sheetsSaved, spreadsheet >>

Next ==
    \/ Start
    \/ LoginWithCookies
    \/ LoadPage
    \/ GetPageInfo
    \/ ExtractSlots
    \/ CheckLinks
    \/ TakeScreenshot
    \/ Stop
    \/ SaveToSheets
    \/ WriteResults

Spec == Init /\ [][Next]_vars

\* --------------------------------------------------- GoogleSheetsManager
MaxAppends == 3

\* The headers list of _add_headers, and the rows save_to_sheets builds.
HeaderRow == "headers"

RowData == {"row_success", "row_failed"}

\* One request to the Sheets API succeeds, fails with an HttpError, or fails
\* with another exception (transport, timeout); a failed request changes
\* nothing.
ApiOutcomes == {"ok", "http_error", "fault"}

\* values().update at sheet!A1 puts the row into row 1.
UpdateA1(rows, row) ==
    IF rows = << >> THEN << row >> ELSE [rows EXCEPT ![1] = row]

\* _add_headers: one values().update; an HttpError is printed and dropped.
\* The result is the spreadsheet and whether an exception leaves the method.
AddHeaders(sp, h) ==
    IF h = "ok"
    THEN [ sp |-> [sp EXCEPT !.rows = UpdateA1(@, HeaderRow), !.headerWrites = @ + 1],
           raised |-> FALSE ]
    ELSE [ sp |-> sp, raised |-> (h = "fault") ]

\* _ensure_sheet_exists with the outcomes g of spreadsheets().get, a of the
\* addSheet batchUpdate and h of the header update.  Every HttpError is
\* caught (return False); the header is written only right after the sheet
\* was created.
EnsureSheetExists(sp, g, a, h) ==
    IF g # "ok" THEN [ sp |-> sp, raised |-> (g = "fault") ]
    ELSE IF sp.exists THEN [ sp |-> sp, raised |-> FALSE ]
    ELSE IF a # "ok" THEN [ sp |-> sp, raised |-> (a = "fault") ]
    ELSE AddHeaders([sp EXCEPT !.exists = TRUE], h)

\* values().append on sheet!A:Z: the row goes below the last row of the
\* sheet; on a sheet that does not exist the API answers with an HttpError.
ValuesAppend(sp, row, v) ==
    IF ~sp.exists
    THEN [ sp |-> sp, returned |-> IF v = "fault" THEN "raised" ELSE "False" ]
    ELSE IF v = "ok"
    THEN [ sp |-> [sp EXCEPT !.rows = Append(@, row)], returned |-> "True" ]
    ELSE [ sp |-> sp, returned |-> IF v = "fault" THEN "raised" ELSE "False" ]

\* append_row: _ensure_sheet_exists (its return value is not looked at),
\* then the append request.
AppendRow ==
    /\ pc = "sheets"
    /\ spreadsheet.appends < MaxAppends
    /\ \E row \in RowData, g \in ApiOutcomes, a \in ApiOutcomes, h \in ApiOutcomes,
          v \in ApiOutcomes :
        LET e == EnsureSheetExists(spreadsheet, g, a, h)
            r == ValuesAppend(e.sp, row, v)
        IN  spreadsheet' =
                IF e.raised
                THEN [e.sp EXCEPT !.appends = @ + 1, !.returned = "raised"]
                ELSE [r.sp EXCEPT !.appends = @ + 1, !.returned = r.returned]
    /\ UNCHANGED << pc, results, driver, sessions, quitCalls, dom, pageText, calls,
                    loadOutcome, cookieCount, attempted, loginFault, hrefsRead,
                    requested, quitRaised, runReturned, sheetsSaved, jsonWritten,
                    exit_code >>

\* append_row alone, called again and again (one call per monitoring run) on
\* a spreadsheet where the sheet is absent, or was set up with its header.
SheetsInit ==
    /\ pc = "sheets"
    /\ results = [InitResults EXCEPT !.status = "success"]
    /\ driver = FALSE
    /\ sessions = 1
    /\ quitCalls = 1
    /\ dom = << >>
    /\ pageText = {}
    /\ calls = << >>
    /\ loadOutcome = "ok"
    /\ cookieCount = 0
    /\ attempted = 0
    /\ loginFault = "none"
    /\ hrefsRead = << >>
    /\ requested = << >>
    /\ quitRaised = FALSE
    /\ runReturned = TRUE
    /\ sheetsSaved = FALSE
    /\ jsonWritten = FALSE
    /\ exit_code = << >>
    /\ spreadsheet \in {NoSheet,
                        [NoSheet EXCEPT !.exists = TRUE, !.rows = << HeaderRow >>]}

SheetsNext ==
    \/ AppendRow

SheetsSpec == SheetsInit /\ [][SheetsNext]_vars

\* ======================================================================
\* Properties
\* ======================================================================
\* run() or main() is over: the results were returned, or the process died.
RunEnded == pc \in {"sheets", "json", "exit", "crashed"}

Invoked(stage) == \E i \in 1..Len(calls) : calls[i] = stage

NavigationFailed == loadOutcome \in {"get_timeout", "get_fault", "wait_timeout", "wait_fault"}

\* C1: whenever navigation fails before the body element appears (driver.get
\* or the body wait raises), the returned result has status failed or error
\* and empty slots and broken_links.
C1_NavigationFailureLeavesNothing ==
    (runReturned /\ NavigationFailed) =>
        /\ results.status \in {"failed", "error"}
        /\ results.slots = << >>
        /\ results.broken_links = << >>

\* C1 witness: the body wait timed out on a document that has elements, and
\* run returned status failed.
C1_Witness ==
    /\ runReturned
    /\ loadOutcome = "wait_timeout"
    /\ Len(dom) > 0
    /\ results.status = "failed"
    /\ results.slots = << >>

\* The spec's access classification: a blocking keyword is present and the
\* in-domain marker is absent.
LooksBlocked(text) == "block_keyword" \in text /\ "in_domain_marker" \notin text

\* C2: when the loaded page contains a blocking keyword and lacks the
\* in-domain marker, the run ends with status blocked and exit code 1,
\* extract_slots and check_links are not run, and a screenshot is attempted.
C2_BlockedPageEndsBlocked ==
    (runReturned /\ loadOutcome = "ok" /\ LooksBlocked(pageText)) =>
        /\ results.status = "blocked"
        /\ ~Invoked("extract_slots")
        /\ ~Invoked("check_links")
        /\ Invoked("take_screenshot")
        /\ (pc = "exit" => exit_code = << 1 >>)

\* C3: in every run in which a browser session was created, driver.quit is
\* invoked exactly once before run ends.
C3_SessionReleasedOnce ==
    (RunEnded /\ sessions > 0) => quitCalls = 1

\* C4: a fault raised by driver.quit in stop is swallowed: run still returns
\* the result, its status unchanged, and main persists it and returns the
\* exit code of that status.
C4_QuitFaultSwallowed ==
    quitRaised =>
        /\ runReturned
        /\ pc # "crashed"
        /\ (pc = "exit" => jsonWritten /\ exit_code = << ExitCodeFor(results.status) >>)

\* C5: for every returned result and every outcome of the spreadsheet sink,
\* main ends by writing the JSON artifact and returning 0 exactly when the
\* status is success, 1 otherwise.
C5_ExitCodeFollowsStatus ==
    (runReturned /\ pc \in {"exit", "crashed"}) =>
        /\ pc = "exit"
        /\ jsonWritten
        /\ exit_code = << IF results.status = "success" THEN 0 ELSE 1 >>

\* C5 witness: save_to_sheets failed (it returned False), the run was a
\* success, and main wrote the artifact and returned 0.
C5_Witness ==
    /\ pc = "exit"
    /\ ~sheetsSaved
    /\ results.status = "success"
    /\ jsonWritten
    /\ exit_code = << 0 >>

\* C6: in every state of a run, total_slots is the length of slots and
\* broken_link_count is the length of broken_links.
C6_CountsMatchLengths ==
    /\ results.total_slots = Len(results.slots)
    /\ results.broken_link_count = Len(results.broken_links)

\* C6 witness: main has finished after extract_slots found slots and
\* check_links recorded a broken link.
C6_Witness ==
    /\ pc = "exit"
    /\ Len(results.slots) > 0
    /\ Len(results.broken_links) > 0
    /\ results.total_links > 0

\* The number a formatted slot index stands for: the digits after the S.
RECURSIVE DigitsValue(_, _)
DigitsValue(ds, k) == IF k = 0 THEN 0 ELSE 10 * DigitsValue(ds, k - 1) + ds[k]

IndexValue(index) == DigitsValue(Tail(index), Len(index) - 1)

\* C7: the slot indices of one run are strictly increasing in output order
\* and unique across all selector groups.
C7_SlotIndicesIncrease ==
    \A i, j \in 1..Len(results.slots) :
        i < j => /\ IndexValue(results.slots[i].index) < IndexValue(results.slots[j].index)
                 /\ results.slots[i].index # results.slots[j].index

\* C7 witness: slots of two selector groups were extracted, the second group
\* after a first group that lost an element to a fault.
C7_Witness ==
    /\ pc # "extract"
    /\ Len(results.slots) >= 3
    /\ \E i \in 1..(Len(results.slots) - 1) :
          results.slots[i].type # results.slots[i + 1].type
    /\ Len(results.slots) < Len(Take(FindElements(dom, "links"), SlotCap))
                              + Len(Take(FindElements(dom, "main_banner"), SlotCap))
                              + Len(Take(FindElements(dom, "content_cards"), SlotCap))
                              + Len(Take(FindElements(dom, "images"), SlotCap))

AnchorHrefs(d) == { d[p].href : p \in { q \in 1..Len(d) : Matches("links", d[q]) } }

\* C8: the BrokenLink entries of one run have pairwise distinct URLs, and
\* each URL is the href of an anchor of the page.
C8_BrokenLinksDistinct ==
    /\ \A i, j \in 1..Len(results.broken_links) :
          i # j => results.broken_links[i].url # results.broken_links[j].url
    /\ \A i \in 1..Len(results.broken_links) :
          results.broken_links[i].url \in AnchorHrefs(dom)

\* C8 witness: two of the anchors check_links iterated share an href, and
\* that href is recorded as broken.
C8_Witness ==
    /\ Invoked("check_links")
    /\ Len(hrefsRead) >= 2
    /\ hrefsRead[1] = hrefsRead[2]
    /\ Len(results.broken_links) = 1
    /\ results.broken_links[1].url = hrefsRead[1]

\* check_links ran to its end (no stage-level fault).
LinkCheckCompleted ==
    /\ Invoked("check_links")
    /\ \A i \in 1..Len(results.errors) : results.errors[i] # "Link check error"

\* The URLs the spec has check_links consider: the hrefs read that are not
\* empty and do not start with javascript:, # or mailto:.
Checkable(url) ==
    /\ url # EmptyHref
    /\ ~StartsWith(url, "javascript:")
    /\ ~StartsWith(url, "#")
    /\ ~StartsWith(url, "mailto:")

CheckableRead == { hrefsRead[i] : i \in { k \in 1..Len(hrefsRead) : Checkable(hrefsRead[k]) } }

\* C9: check_links issues a health request for exactly the distinct hrefs,
\* among the anchors it iterates up to the cap, that are non-empty and do not
\* start with javascript:, # or mailto:, and total_links is their number.
C9_RequestsExactlyCheckable ==
    LinkCheckCompleted =>
        /\ { requested[i] : i \in 1..Len(requested) } = CheckableRead
        /\ Len(requested) = Cardinality(CheckableRead)
        /\ results.total_links = Cardinality(CheckableRead)

\* C10: no failure inside the cookie-login step is fatal to the run: a
\* rejected cookie does not stop the remaining cookies from being added,
\* load_page is attempted afterwards, and login_status ends as success,
\* failed or no_cookies.
C10_LoginNeverFatal ==
    (Invoked("login_with_cookies") /\ pc # "login") =>
        /\ attempted > 0 => attempted = cookieCount
        /\ pc = "load" \/ Invoked("load_page")
        /\ results.login_status \in {"success", "failed", "no_cookies"}

\* C11: the slot sequence of extract_slots is de-duplicated: a page element
\* that matches more than one selector group (or several comma-joined
\* alternatives of one group) yields at most one SlotRecord in a run.
C11_SlotsDeduplicated ==
    \A i, j \in 1..Len(results.slots) :
        i # j => results.slots[i].node # results.slots[j].node

\* The stages of run(), in the order of its code.
Stages ==
    << "start", "login_with_cookies", "load_page", "get_page_info",
       "extract_slots", "check_links", "take_screenshot", "stop" >>

\* The place of a stage in run().
StageRanks == [s \in {Stages[k] : k \in 1..Len(Stages)} |-> CHOOSE k \in 1..Len(Stages) : Stages[k] = s]

StageRank(stage) == StageRanks[stage]

HasError(msg) == \E i \in 1..Len(results.errors) : results.errors[i] = msg

\* C12: within one run the stages execute strictly in the order session
\* creation, cookie login, page load, slot extraction, link check, teardown,
\* each at most once; a failed navigation is recorded in errors, makes the
\* status failed and is not retried; extract_slots starts only after
\* load_page returned success, check_links only after extract_slots.
C12_StagesInOrderOnce ==
    /\ \A i \in 1..(Len(calls) - 1) : StageRank(calls[i]) < StageRank(calls[i + 1])
    /\ NavigationFailed =>
          /\ results.status = "failed"
          /\ HasError("Page load timeout") \/ HasError("Page load error")
    /\ loadOutcome \in {"get_timeout", "wait_timeout"} => HasError("Page load timeout")
    /\ Invoked("extract_slots") => (Invoked("load_page") /\ loadOutcome = "ok")
    /\ Invoked("check_links") => Invoked("extract_slots")

\* C12 witness: a run that went through every stage, each once, in order.
C12_Witness ==
    /\ runReturned
    /\ calls = << "start", "login_with_cookies", "load_page", "get_page_info",
                  "extract_slots", "check_links", "take_screenshot", "stop" >>
    /\ results.status = "success"

\* take_screenshot was called, and before stop.
ScreenshotBeforeStop ==
    \E i \in 1..Len(calls) :
        /\ calls[i] = "take_screenshot"
        /\ \A j \in 1..i : calls[j] # "stop"

\* C13: whenever load_page fails, extract_slots and check_links are not
\* invoked, a screenshot is still attempted before teardown, and once the
\* process has ended the result has been written as the JSON artifact by
\* main with the status still failed, whatever the screenshot attempt did.
C13_FailedLoadStillPersists ==
    NavigationFailed =>
        /\ ~Invoked("extract_slots")
        /\ ~Invoked("check_links")
        /\ Invoked("stop") => ScreenshotBeforeStop
        /\ pc \in {"exit", "crashed"} =>
              /\ ScreenshotBeforeStop
              /\ results.status = "failed"
              /\ jsonWritten

\* C14: after any sequence of append_row calls, including calls in which a
\* sheet-lookup, sheet-creation or header-write request fails, the header
\* row has been written at most once, and every data row that was appended
\* went to a sheet that exists and already holds the header row.
C14_AppendRowKeepsHeader ==
    /\ spreadsheet.headerWrites <= 1
    /\ spreadsheet.rows # << >> =>
          /\ spreadsheet.exists
          /\ spreadsheet.rows[1] = HeaderRow

====
